---- MODULE Spec2Model ----
(***************************************************************************)
(* A model of the odin-fastcs controller: per-client sessions with their   *)
(* parameter caches (client.py), the path utilities (utils.py) and the     *)
(* receive / monitor callbacks of FastCSController (controller.py).        *)
(*                                                                         *)
(* Python strings are sequences of one-character strings, so that split,   *)
(* rindex and slicing are computed and not assumed.  A parameter value is  *)
(* a tagged tree: Leaf(scalar), Node(mapping key -> tree) or None.         *)
(***************************************************************************)
EXTENDS Integers, Sequences, FiniteSets, TLC

\* ------------------------------------------------------------------ bounds

\* msg_count is unbounded in the code; a session takes no further message
\* other than bye once it has counted this many.
MaxMsgs == 2

\* the number of transport connections the environment opens at once
MaxConns == 1

\* the longest path string the path utilities are applied to
MaxPathLen == 4

\* ----------------------------------------------------------- python values

None == [kind |-> "none"]

Leaf(v) == [kind |-> "leaf", val |-> v]

Node(kids) == [kind |-> "node", kids |-> kids]

EmptyKids == [k \in {} |-> None]

IsDict(t) == t.kind = "node"

\* Scalars are written as strings: "i0", "i1" are the ints 0 and 1, "bF", "bT"
\* the bools, "s" the empty str and "sa" the str "a".
IntScalars == {"i0", "i1"}

BoolScalars == {"bF", "bT"}

StrScalars == {"s", "sa"}

\* the numeric value python compares ints and bools by
PyNum(v) == IF v \in {"i0", "bF"} THEN 0 ELSE 1

\* python's == on two values
PyEq(a, b) ==
    IF a.kind = "leaf" /\ b.kind = "leaf"
       /\ a.val \in IntScalars \cup BoolScalars
       /\ b.val \in IntScalars \cup BoolScalars
    THEN PyNum(a.val) = PyNum(b.val)
    ELSE a = b

\* a faulty PyTruthy: the test `is not None`
PyTruthy_not_none(t) == t.kind # "none"

\* python's truth value: None, 0, False, "" and {} are false
PyTruthy(t) ==
    CASE t.kind = "none" -> FALSE
      [] t.kind = "leaf" -> t.val \notin {"i0", "bF", "s"}
      [] t.kind = "node" -> DOMAIN t.kids # {}

\* ----------------------------------------------------------- python strings

SLASH == "/"

\* the index of the first "/" of s at or after position i, 0 when there is none
RECURSIVE FindFrom(_, _)
FindFrom(s, i) ==
    IF i > Len(s) THEN 0
    ELSE IF s[i] = SLASH THEN i
    ELSE FindFrom(s, i + 1)

\* the index of the last "/" of s at or before position i, 0 when there is none
RECURSIVE RFindFrom(_, _)
RFindFrom(s, i) ==
    IF i < 1 THEN 0
    ELSE IF s[i] = SLASH THEN i
    ELSE RFindFrom(s, i - 1)

\* s.split("/", 1)
Split1(s) ==
    LET i == FindFrom(s, 1) IN
    IF i = 0 THEN <<s>>
    ELSE <<SubSeq(s, 1, i - 1), SubSeq(s, i + 1, Len(s))>>

\* s.split("/")[-1]
LastSegment(s) == SubSeq(s, RFindFrom(s, Len(s)) + 1, Len(s))

\* ---------------------------------------------------------------- utils.py

\* a faulty resolve_paths: the path is split at its last "/"
resolve_paths_rsplit(path) ==
    LET i == RFindFrom(path, Len(path)) IN
    [path     |-> path,
     adapter  |-> IF i = 0 THEN path ELSE SubSeq(path, 1, i - 1),
     sub_path |-> IF i = 0 THEN <<>> ELSE SubSeq(path, i + 1, Len(path))]

\* one element of resolve_paths: (path, adapter, sub_path)
resolve_paths(path) ==
    LET split_path == Split1(path) IN
    [path     |-> path,
     adapter  |-> split_path[1],
     sub_path |-> IF Len(split_path) > 1 THEN split_path[2] ELSE <<>>]

\* a faulty normalize_params: a single key is unwrapped whatever its name
normalize_params_any_key(path, params) ==
    IF ~IsDict(params) THEN [raised |-> TRUE, params |-> params]
    ELSE IF Cardinality(DOMAIN params.kids) = 1
         THEN [raised |-> FALSE,
               params |-> params.kids[CHOOSE k \in DOMAIN params.kids : TRUE]]
         ELSE [raised |-> FALSE, params |-> params]

\* params.keys() is an AttributeError when params is no dict
normalize_params(path, params) ==
    IF ~IsDict(params) THEN [raised |-> TRUE, params |-> params]
    ELSE IF Cardinality(DOMAIN params.kids) = 1
            /\ LastSegment(path) \in DOMAIN params.kids
         THEN [raised |-> FALSE, params |-> params.kids[LastSegment(path)]]
         ELSE [raised |-> FALSE, params |-> params]

\* a faulty denormalize_params: index('/') in place of rindex('/')
denormalize_params_index(path, params) ==
    IF ~IsDict(params) /\ FindFrom(path, 1) # 0
    THEN LET i == FindFrom(path, 1)
             param_name == SubSeq(path, i + 1, Len(path))
         IN [raised     |-> FALSE,
             path       |-> SubSeq(path, 1, i - 1),
             param_name |-> param_name,
             params     |-> Node((param_name :> params))]
    ELSE [raised     |-> TRUE,
          path       |-> path,
          param_name |-> <<>>,
          params     |-> params]

\* param_name is bound only in the branch that wraps the value: the return
\* statement raises UnboundLocalError in the other one.
denormalize_params(path, params) ==
    IF ~IsDict(params) /\ FindFrom(path, 1) # 0
    THEN LET i == RFindFrom(path, Len(path))
             param_name == SubSeq(path, i + 1, Len(path))
         IN [raised     |-> FALSE,
             path       |-> SubSeq(path, 1, i - 1),
             param_name |-> param_name,
             params     |-> Node((param_name :> params))]
    ELSE [raised     |-> TRUE,
          path       |-> path,
          param_name |-> <<>>,
          params     |-> params]

\* --------------------------------------------------------------- client.py

\* the order python iterates the keys of the dicts of this model in: a dict
\* keeps its insertion order, deepcopy and item assignment preserve it
KeyOrder == << <<"p">>, <<"g">>, <<"x">>, <<"y">>, <<"v">>, <<"w">> >>

Keys(t) == SelectSeq(KeyOrder, LAMBDA k : k \in DOMAIN t.kids)

\* FastCSClient(id)
FastCSClient ==
    [msg_count |-> 0, last_msg |-> "0", param_cache |-> EmptyKids, sub_paths |-> {}]

\* a faulty msg_recvd: only the time stamp is updated
msg_recvd_nocount(client) == [client EXCEPT !.last_msg = "time"]

msg_recvd(client) ==
    [client EXCEPT !.msg_count = @ + 1, !.last_msg = "time"]

\* _build_delta(cached, new): ret is the value returned, cache the object
\* `cached` as the call leaves it (the dict is mutated in place, a leaf is
\* only rebound locally), raised whether new[key] raised.
RECURSIVE _build_delta(_, _)
RECURSIVE _build_delta_loop(_, _, _, _)
_build_delta_loop(cached, new, keys, subtree) ==
    IF keys = <<>>
    THEN [ret |-> Node(subtree), cache |-> cached, raised |-> FALSE]
    ELSE LET key == Head(keys) IN
         IF ~IsDict(new) \/ key \notin DOMAIN new.kids
         THEN [ret |-> None, cache |-> cached, raised |-> TRUE]
         ELSE LET r == _build_delta(cached.kids[key], new.kids[key]) IN
              IF r.raised
              THEN [ret    |-> None,
                    cache  |-> [cached EXCEPT !.kids[key] = r.cache],
                    raised |-> TRUE]
              ELSE IF PyTruthy(r.ret)
              THEN _build_delta_loop([cached EXCEPT !.kids[key] = r.ret], new,
                                     Tail(keys), subtree @@ (key :> r.ret))
              ELSE _build_delta_loop([cached EXCEPT !.kids[key] = r.cache], new,
                                     Tail(keys), subtree)

\* a faulty _build_delta: a changed leaf is reported with its cached value
_build_delta_old(cached, new) ==
    IF IsDict(cached)
    THEN _build_delta_loop(cached, new, Keys(cached), EmptyKids)
    ELSE IF ~PyEq(cached, new)
         THEN [ret |-> cached, cache |-> cached, raised |-> FALSE]
         ELSE [ret |-> None, cache |-> cached, raised |-> FALSE]

_build_delta(cached, new) ==
    IF IsDict(cached)
    THEN _build_delta_loop(cached, new, Keys(cached), EmptyKids)
    ELSE IF ~PyEq(cached, new)
         THEN [ret |-> new, cache |-> cached, raised |-> FALSE]
         ELSE [ret |-> None, cache |-> cached, raised |-> FALSE]

\* a faulty update_params: the value is returned and not stored
update_params_nostore(client, path, new, with_delta) ==
    IF with_delta /\ path \in DOMAIN client.param_cache
    THEN LET r == _build_delta(client.param_cache[path], new) IN
         [data   |-> r.ret,
          client |-> [client EXCEPT !.param_cache[path] = r.cache],
          raised |-> r.raised]
    ELSE [data |-> new, client |-> client, raised |-> FALSE]

\* update_params(path, new, with_delta) on a session: data is the value
\* returned, client the session afterwards
update_params(client, path, new, with_delta) ==
    IF with_delta /\ path \in DOMAIN client.param_cache
    THEN LET r == _build_delta(client.param_cache[path], new) IN
         [data   |-> r.ret,
          client |-> [client EXCEPT !.param_cache[path] = r.cache],
          raised |-> r.raised]
    ELSE [data   |-> new,
          client |-> [client EXCEPT !.param_cache = (path :> new) @@ @],
          raised |-> FALSE]

as_tree(client) ==
    [msg_count        |-> client.msg_count,
     last_msg         |-> client.last_msg,
     params_cached    |-> Cardinality(DOMAIN client.param_cache),
     subscribed_paths |-> client.sub_paths]

\* ------------------------------------------------------- the environment

\* the identities of the clients that connect
CLIENT_IDS == {"c1", "c2"}

\* self.adapters after initialize(): registered name -> class name
adapters == (<<"m">> :> "SystemInfoAdapter")

\* the paths the clients of this model ask for: owner m holds the tree
\* {p: int, g: {x: bool, y: str}}, no owner is called u
M == <<"m">>

M_P == <<"m", "/", "p">>

M_G == <<"m", "/", "g">>

M_G_X == <<"m", "/", "g", "/", "x">>

M_G_Y == <<"m", "/", "g", "/", "y">>

U_P == <<"u", "/", "p">>

\* the values of the three parameters of owner m
AdapterStates == [p : IntScalars, x : BoolScalars, y : StrScalars]

\* a parameter as the owner's tree reports it, with or without metadata
AdapterLeaf(v, metadata) ==
    IF metadata
    THEN Node((<<"v">> :> Leaf(v)) @@ (<<"w">> :> Leaf("bT")))
    ELSE Leaf(v)

AdapterTree(st, metadata) ==
    Node((<<"p">> :> AdapterLeaf(st.p, metadata))
         @@ (<<"g">> :> Node((<<"x">> :> AdapterLeaf(st.x, metadata))
                             @@ (<<"y">> :> AdapterLeaf(st.y, metadata)))))

\* the node of tree t at path, None when the path leads nowhere
RECURSIVE Descend(_, _)
Descend(t, path) ==
    IF path = <<>> THEN t
    ELSE LET sp == Split1(path) IN
         IF IsDict(t) /\ sp[1] \in DOMAIN t.kids
         THEN Descend(t.kids[sp[1]], IF Len(sp) > 1 THEN sp[2] ELSE <<>>)
         ELSE None

ERROR_KEY == <<"e", "r", "r", "o", "r">>

ADAPTERS_KEY == <<"a", "d", "a", "p", "t", "e", "r", "s">>

\* the data of the response of a parameter-tree get: the whole tree for the
\* empty path, {last segment: subtree} otherwise
AdapterGetData(t, path) ==
    LET sub == Descend(t, path) IN
    IF sub = None THEN Node((ERROR_KEY :> Leaf("Invalid path")))
    ELSE IF path = <<>> THEN sub
    ELSE Node((LastSegment(path) :> sub))

\* adapter.get(sub_path, request).data
adapter_get(st, sub_path, metadata) ==
    AdapterGetData(AdapterTree(st, metadata), sub_path)

\* the owner's state after a put of body at request_path: every key of the
\* body that names a parameter below request_path takes the body's value
adapter_put_state(st, request_path, body) ==
    LET at == Descend(AdapterTree(st, FALSE), request_path)
        hit(k) == /\ IsDict(body) /\ IsDict(at)
                  /\ k \in DOMAIN body.kids /\ k \in DOMAIN at.kids
                  /\ at.kids[k].kind = "leaf" /\ body.kids[k].kind = "leaf"
        val(k, old) == IF hit(k) THEN body.kids[k].val ELSE old
    IN [p |-> val(<<"p">>, st.p), x |-> val(<<"x">>, st.x), y |-> val(<<"y">>, st.y)]

\* adapter.put(request_path, request).data: the tree at request_path afterwards
adapter_put(st, request_path, body) ==
    AdapterGetData(AdapterTree(adapter_put_state(st, request_path, body), FALSE),
                   request_path)

\* ----------------------------------------------------------------- messages

MSG_IDS == {1, 2}

NoParams == [paths |-> <<>>, metadata |-> FALSE, delta |-> FALSE]

IpcMessage(msg_type, msg_val, id, params) ==
    [decodes |-> TRUE, msg_type |-> msg_type, msg_val |-> msg_val, id |-> id,
     params |-> params]

\* a frame IpcMessage(from_str=...) raises IpcMessageException for
Malformed ==
    [decodes |-> FALSE, msg_type |-> "", msg_val |-> "", id |-> 0, params |-> NoParams]

\* the get commands with the given path lists, metadata and delta flags
GetMessages(path_lists, metadata_flags) ==
    {IpcMessage("cmd", "get", 1, [paths |-> ps, metadata |-> md, delta |-> dl]) :
        ps \in path_lists, md \in metadata_flags, dl \in BOOLEAN}

\* the paths param of a set is a dict: here the sequence of its items
SetPathDicts ==
    {<< <<M_G_X, Leaf(v)>> >> : v \in BoolScalars}
    \cup {<< <<M_P, Leaf("i0")>> >>,
          << <<U_P, Leaf("i1")>> >>,
          << <<U_P, Leaf("i1")>>, <<M_G_X, Leaf("bT")>> >>,
          << <<M_G_X, Leaf("bF")>>, <<M_P, Leaf("i1")>> >>,
          << <<M_G, Node((<<"x">> :> Leaf("bT")))>> >>}

SetMessages ==
    {IpcMessage("cmd", "set", 1, [NoParams EXCEPT !.paths = ps]) : ps \in SetPathDicts}

OtherMessages ==
    {IpcMessage("cmd", val, id, NoParams) :
        val \in {"request_adapters", "status"}, id \in MSG_IDS}
    \cup {IpcMessage("cmd", "bye", 1, NoParams),
          IpcMessage("cmd", "subscribe", 1, [NoParams EXCEPT !.paths = <<M, M_P>>]),
          IpcMessage("notify", "get", 1, [NoParams EXCEPT !.paths = <<M_P>>])}

\* what the two clients of the controller specification send
Messages ==
    GetMessages({<<M_P>>, <<U_P>>, <<U_P, M_P>>}, {FALSE})
    \cup SetMessages \cup OtherMessages \cup {Malformed}

\* what the two clients of the shared-parameter specification send
SharedMessages ==
    GetMessages({<<M_P>>}, {FALSE}) \cup {IpcMessage("cmd", "bye", 1, NoParams)}

\* what the client of the cache specification sends
CacheMessages == GetMessages({<<M>>, <<M_P>>, <<M_G>>}, BOOLEAN)

\* what the second client of the session specification sends
ObserverMessages ==
    GetMessages({<<M_G_X>>}, {FALSE}) \cup {IpcMessage("cmd", "bye", 1, NoParams)}

\* what the first client of the session specification sends: gets of a
\* parameter and of the dict that holds it, sets of the parameter, and one of
\* each other kind of frame
SessionMessages ==
    GetMessages({<<M_G_X>>, <<M_G>>, <<M_G_X, M_G>>}, BOOLEAN)
    \cup {IpcMessage("cmd", "set", 1, [NoParams EXCEPT !.paths = << <<M_G_X, Leaf(v)>> >>]) :
            v \in BoolScalars}
    \cup {IpcMessage("cmd", "bye", 1, NoParams),
          IpcMessage("cmd", "subscribe", 1, [NoParams EXCEPT !.paths = <<M_G_X>>]),
          IpcMessage("cmd", "request_adapters", 1, NoParams),
          IpcMessage("cmd", "status", 1, NoParams),
          Malformed}

\* --------------------------------------------------------------- controller

VARIABLES
    clients,        \* self.clients: client id -> FastCSClient
    num_clients,    \* self.num_clients
    adapter_state,  \* the parameter values of owner m
    last,           \* the event handled last and what it sent
    seen            \* history: client id -> path -> the value its last get read

vars == <<clients, num_clients, adapter_state, last, seen>>

\* a faulty adapter_known: the membership test is left out
adapter_known_any(adapter) == TRUE

\* `if adapter in self.adapters`
adapter_known(adapter) == adapter \in DOMAIN adapters

\* process_client_get: the loop over the requested paths from the i-th on.
\* data is the dict built so far; raised names the exception that ended it.
RECURSIVE process_client_get_loop(_, _, _, _, _, _, _)
process_client_get_loop(client, st, paths, i, with_metadata, with_delta, data) ==
    IF i > Len(paths)
    THEN [client |-> client, data |-> data, raised |-> "none"]
    ELSE LET r == resolve_paths(paths[i]) IN
         IF ~adapter_known(r.adapter)
         THEN process_client_get_loop(client, st, paths, i + 1, with_metadata,
                                      with_delta, data)
         ELSE LET params == normalize_params(r.sub_path,
                                             adapter_get(st, r.sub_path, with_metadata))
                  u == update_params(client, r.path, params.params, with_delta)
              IN IF params.raised
                 THEN [client |-> client, data |-> data, raised |-> "AttributeError"]
                 ELSE IF u.raised
                 THEN [client |-> u.client, data |-> data, raised |-> "TypeError"]
                 ELSE process_client_get_loop(u.client, st, paths, i + 1, with_metadata,
                                              with_delta, (r.path :> u.data) @@ data)

\* a faulty process_client_get: metadata does not override delta
process_client_get_keep_delta(client, st, client_msg) ==
    process_client_get_loop(client, st, client_msg.params.paths, 1,
                            client_msg.params.metadata, client_msg.params.delta,
                            EmptyKids)

process_client_get(client, st, client_msg) ==
    LET with_metadata == client_msg.params.metadata
        with_delta == IF with_metadata THEN FALSE ELSE client_msg.params.delta
    IN process_client_get_loop(client, st, client_msg.params.paths, 1,
                               with_metadata, with_delta, EmptyKids)

\* data[key], a KeyError or TypeError when there is no such item
GetItem(data, key) ==
    IF IsDict(data) /\ key \in DOMAIN data.kids
    THEN [raised |-> FALSE, value |-> data.kids[key]]
    ELSE [raised |-> TRUE, value |-> None]

\* process_client_set: the loop over the items of paths from the i-th on
RECURSIVE process_client_set_loop(_, _, _, _)
process_client_set_loop(st, paths, i, data) ==
    IF i > Len(paths)
    THEN [state |-> st, data |-> data, raised |-> "none"]
    ELSE LET r == resolve_paths(paths[i][1]) IN
         IF ~adapter_known(r.adapter)
         THEN process_client_set_loop(st, paths, i + 1, data)
         ELSE LET d == denormalize_params(r.sub_path, paths[i][2])
                  response == adapter_put(st, d.path, d.params)
                  sub == GetItem(response, d.path)
                  item == GetItem(sub.value, d.param_name)
                  st2 == adapter_put_state(st, d.path, d.params)
              IN IF d.raised
                 THEN [state |-> st, data |-> data, raised |-> "UnboundLocalError"]
                 ELSE IF sub.raised \/ item.raised
                 THEN [state |-> st2, data |-> data, raised |-> "KeyError"]
                 ELSE process_client_set_loop(st2, paths, i + 1,
                                              (r.path :> item.value) @@ data)

process_client_set(st, client_msg) ==
    process_client_set_loop(st, client_msg.params.paths, 1, EmptyKids)

\* a faulty process_client_subscribe: the paths are returned as params
process_client_subscribe_paths(client_msg) ==
    [p \in {client_msg.params.paths[i] : i \in 1..Len(client_msg.params.paths)}
        |-> Leaf("bT")]

\* process_client_subscribe only logs the paths
process_client_subscribe(client_msg) == EmptyKids

\* a faulty Response: the id of the request is not copied
Response_no_id(msg_type, msg_val, id, params) ==
    [msg_type |-> msg_type, msg_val |-> msg_val, id |-> 0, params |-> params]

\* IpcMessage(msg_type=..., msg_val=..., id=...) with its params
Response(msg_type, msg_val, id, params) ==
    [msg_type |-> msg_type, msg_val |-> msg_val, id |-> id, params |-> params]

\* a faulty set_msg_type: the type is left as it was
set_msg_type_keep(response, msg_type) == response

\* response.set_msg_type(msg_type)
set_msg_type(response, msg_type) == [response EXCEPT !.msg_type = msg_type]

\* a faulty adapter_list: the names without the class names
adapter_list_names == Node([name \in DOMAIN adapters |-> Leaf("")])

\* {name: adapter.__class__.__name__ for name, adapter in self.adapters.items()}
adapter_list == Node([name \in DOMAIN adapters |-> Leaf(adapters[name])])

\* a faulty Without: the whole registry is cleared
WithoutAll(f, k) == EmptyKids

\* a faulty Without: nothing is deleted
WithoutNone(f, k) == f

\* del f[k]
Without(f, k) == [j \in DOMAIN f \ {k} |-> f[j]]

\* process_client_msg(client_id, client_msg) on the registry cl and the owner
\* state st: the registry and owner state afterwards, the response returned,
\* and the exception raised instead, if any
process_client_msg(cl, st, client_id, client_msg) ==
    LET ack(params) == Response("ack", client_msg.msg_val, client_msg.id, params)
        done(cl2, st2, params) ==
            [clients |-> cl2, state |-> st2, response |-> ack(params), raised |-> "none"]
        failed(cl2, st2, exc) ==
            [clients |-> cl2, state |-> st2, response |-> ack(EmptyKids), raised |-> exc]
    IN
    CASE client_msg.msg_type = "cmd" /\ client_msg.msg_val = "request_adapters" ->
            done(cl, st, (ADAPTERS_KEY :> adapter_list))
      [] client_msg.msg_type = "cmd" /\ client_msg.msg_val = "get" ->
            LET g == process_client_get(cl[client_id], st, client_msg)
                cl2 == [cl EXCEPT ![client_id] = g.client]
            IN IF g.raised = "none" THEN done(cl2, st, g.data)
               ELSE failed(cl2, st, g.raised)
      [] client_msg.msg_type = "cmd" /\ client_msg.msg_val = "set" ->
            LET s == process_client_set(st, client_msg)
            IN IF s.raised = "none" THEN done(cl, s.state, s.data)
               ELSE failed(cl, s.state, s.raised)
      [] client_msg.msg_type = "cmd" /\ client_msg.msg_val = "subscribe" ->
            done(cl, st, process_client_subscribe(client_msg))
      [] client_msg.msg_type = "cmd" /\ client_msg.msg_val = "bye" ->
            done(Without(cl, client_id), st, EmptyKids)
      [] OTHER ->
            [clients |-> cl, state |-> st, raised |-> "none",
             response |-> set_msg_type(ack(EmptyKids), "nack")]

\* a faulty track_client: a new FastCSClient for every frame
track_client_always_new(cl, client_id) == (client_id :> FastCSClient) @@ cl

\* the registry after the tracking step of handle_receive
track_client(cl, client_id) ==
    IF client_id \notin DOMAIN cl
    THEN (client_id :> FastCSClient) @@ cl
    ELSE [cl EXCEPT ![client_id] = msg_recvd(@)]

\* a faulty decode_error_response: the error detail is not set
decode_error_response_bare == Response("nack", "error", 0, EmptyKids)

\* the response handle_receive builds when the frame does not decode
decode_error_response ==
    Response("nack", "error", 0, (ERROR_KEY :> Leaf("str(ipc_error)")))

\* the try block of handle_receive: the frame is decoded and processed, a
\* frame that does not decode is answered with the error response
decode_and_process(cl, st, client_id, msg) ==
    IF ~msg.decodes
    THEN [clients |-> cl, state |-> st, raised |-> "none",
          response |-> decode_error_response]
    ELSE process_client_msg(cl, st, client_id, msg)

\* the record of a receive event: sent is the sequence of messages handed to
\* client_chan.send_multipart, empty when an exception left the callback;
\* published the sequence of messages handed to publish_chan, which no
\* statement of the controller sends on
ReceiveEvent(client_id, msg, r) ==
    [event |-> "receive", client |-> client_id, msg |-> msg, raised |-> r.raised,
     published |-> <<>>,
     sent |-> IF r.raised = "none"
              THEN << [to |-> client_id, msg |-> r.response] >>
              ELSE <<>>]

\* handle_receive([client_id, frame])
handle_receive(client_id, msg) ==
    /\ client_id \in DOMAIN clients =>
          \/ clients[client_id].msg_count < MaxMsgs
          \/ msg.decodes /\ msg.msg_type = "cmd" /\ msg.msg_val = "bye"
    /\ \E r \in {decode_and_process(track_client(clients, client_id), adapter_state,
                                    client_id, msg)} :
          /\ clients' = r.clients
          /\ adapter_state' = r.state
          /\ last' = ReceiveEvent(client_id, msg, r)
    /\ UNCHANGED num_clients

NoEvent(event) ==
    [event |-> event, client |-> "", msg |-> Malformed, raised |-> "none",
     published |-> <<>>, sent |-> <<>>]

\* a faulty handle_monitor: only the client channel is counted
handle_monitor_client_only(chan_name, event) ==
    /\ event = "CONNECTED" => num_clients < MaxConns
    /\ event = "DISCONNECTED" => num_clients > 0
    /\ num_clients' = CASE chan_name = "client" /\ event = "CONNECTED" -> num_clients + 1
                        [] chan_name = "client" /\ event = "DISCONNECTED" -> num_clients - 1
                        [] OTHER -> num_clients
    /\ last' = [NoEvent("monitor") EXCEPT !.client = chan_name, !.raised = event]
    /\ UNCHANGED <<clients, adapter_state>>

\* handle_monitor(chan_name, monitor_msg)
handle_monitor(chan_name, event) ==
    /\ event = "CONNECTED" => num_clients < MaxConns
    /\ event = "DISCONNECTED" => num_clients > 0
    /\ num_clients' = CASE event = "CONNECTED" -> num_clients + 1
                        [] event = "DISCONNECTED" -> num_clients - 1
                        [] OTHER -> num_clients
    /\ last' = [NoEvent("monitor") EXCEPT !.client = chan_name, !.raised = event]
    /\ UNCHANGED <<clients, adapter_state>>

\* one of the given parameters of owner m changes by itself
AdapterChange(names) ==
    /\ \E st \in AdapterStates :
          /\ Cardinality({k \in {"p", "x", "y"} : st[k] # adapter_state[k]}) = 1
          /\ \A k \in {"p", "x", "y"} \ names : st[k] = adapter_state[k]
          /\ adapter_state' = st
    /\ last' = NoEvent("adapter")
    /\ UNCHANGED <<clients, num_clients>>

Init ==
    /\ clients = EmptyKids
    /\ num_clients = 0
    /\ adapter_state = [p |-> "i1", x |-> "bF", y |-> "s"]
    /\ last = NoEvent("init")
    /\ seen = EmptyKids

\* the controller with two clients, the connection monitor and owner m
Receive ==
    /\ \E client_id \in CLIENT_IDS, msg \in Messages : handle_receive(client_id, msg)
    /\ UNCHANGED seen

Monitor ==
    /\ \E chan_name \in {"client", "publisher"},
          event \in {"CONNECTED", "DISCONNECTED", "HANDSHAKE"} :
           handle_monitor(chan_name, event)
    /\ UNCHANGED seen

Change == AdapterChange({"p"}) /\ UNCHANGED seen

Next == Receive \/ Monitor \/ Change

Spec == Init /\ [][Next]_vars

\* one client and its parameter cache: every get on the tree of owner m
ReceiveGet ==
    /\ \E msg \in CacheMessages : handle_receive("c1", msg)
    /\ UNCHANGED seen

ChangeAny == AdapterChange({"p", "x", "y"}) /\ UNCHANGED seen

NextCache == ReceiveGet \/ ChangeAny

SpecCache == Init /\ [][NextCache]_vars

\* what owner m answers a get of path with, as the client is to receive it
OwnerValue(st, path, metadata) ==
    LET r == resolve_paths(path) IN
    normalize_params(r.sub_path, adapter_get(st, r.sub_path, metadata)).params

\* the paths of a request whose owner name is registered
KnownPaths(paths) ==
    {paths[i] : i \in {j \in 1..Len(paths) : Split1(paths[j])[1] \in DOMAIN adapters}}

\* the history after client_id's message msg: a get records, for each path
\* of a registered owner, the value read; bye forgets the client
SeenAfter(client_id, msg) ==
    LET old == IF client_id \in DOMAIN clients /\ client_id \in DOMAIN seen
               THEN seen[client_id] ELSE EmptyKids
        got == [p \in KnownPaths(msg.params.paths) |->
                   OwnerValue(adapter_state, p, msg.params.metadata)]
    IN
    IF msg.decodes /\ msg.msg_type = "cmd" /\ msg.msg_val = "bye"
    THEN Without(seen, client_id)
    ELSE IF msg.decodes /\ msg.msg_type = "cmd" /\ msg.msg_val = "get"
    THEN (client_id :> (got @@ old)) @@ seen
    ELSE (client_id :> old) @@ seen

\* two clients reading the same parameter, with the history of what each read
ReceiveShared ==
    \E client_id \in CLIENT_IDS, msg \in SharedMessages :
        /\ handle_receive(client_id, msg)
        /\ seen' = SeenAfter(client_id, msg)

NextShared == ReceiveShared \/ Change

SpecShared == Init /\ [][NextShared]_vars

\* two clients and their sessions: gets, sets and the other frames on one
\* parameter of owner m, with the history of the paths each session asked for
ReceiveSession ==
    \E msg \in SessionMessages :
        /\ handle_receive("c1", msg)
        /\ seen' = SeenAfter("c1", msg)

ReceiveObserver ==
    \E msg \in ObserverMessages :
        /\ handle_receive("c2", msg)
        /\ seen' = SeenAfter("c2", msg)

ChangeX == AdapterChange({"x"}) /\ UNCHANGED seen

NextSession == ReceiveSession \/ ReceiveObserver \/ ChangeX

SpecSession == Init /\ [][NextSession]_vars

\* --------------------------------------------------------------- properties

\* the leaves of a value as (key path, scalar) pairs; None and {} have none
RECURSIVE Leaves(_)
Leaves(t) ==
    CASE t.kind = "none" -> {}
      [] t.kind = "leaf" -> {<< <<>>, t.val >>}
      [] t.kind = "node" ->
            UNION {{<< <<k>> \o l[1], l[2] >> : l \in Leaves(t.kids[k])} :
                     k \in DOMAIN t.kids}

KeyPaths(t) == {l[1] : l \in Leaves(t)}

\* the leaves of new whose value is not the one old has there
ChangedLeaves(old, new) == Leaves(new) \ Leaves(old)

IsCmd(msg, val) == msg.decodes /\ msg.msg_type = "cmd" /\ msg.msg_val = val

Received(l) == l.event = "receive"

\* a get that asks for the delta and gets it (metadata overrides delta)
DeltaGet(l) ==
    Received(l) /\ IsCmd(l.msg, "get") /\ l.msg.params.delta /\ ~l.msg.params.metadata

Answered(l) == Len(l.sent) = 1

Answer(l) == l.sent[1].msg

RequestedPaths == {M, M_P, M_G, U_P}

\* C1: when the cache of a session holds V for p and the owner now returns V2
\* with the same keys and exactly one leaf changed, a get of p with delta=true
\* is answered with exactly that leaf and its new value, whatever the depth of
\* the leaf and whatever its new value (0, false and "" included).
C1_OneLeafDelta ==
    [][\A p \in RequestedPaths :
          LET c == last'.client
              V == clients[c].param_cache[p]
              V2 == OwnerValue(adapter_state, p, FALSE)
          IN (/\ DeltaGet(last')
              /\ p \in KnownPaths(last'.msg.params.paths)
              /\ c \in DOMAIN clients
              /\ p \in DOMAIN clients[c].param_cache
              /\ KeyPaths(V) = KeyPaths(V2)
              /\ Cardinality(ChangedLeaves(V, V2)) = 1)
             => /\ Answered(last')
                /\ p \in DOMAIN Answer(last').params
                /\ Leaves(Answer(last').params[p]) = ChangedLeaves(V, V2)]_vars

\* C2: after every get that was answered, with or without delta, the cache
\* entry of the session for each path read equals the value the owner
\* returned, in full.
C2_CacheHoldsNewValue ==
    (Received(last) /\ IsCmd(last.msg, "get") /\ Answered(last))
    => \A p \in KnownPaths(last.msg.params.paths) :
          /\ p \in DOMAIN clients[last.client].param_cache
          /\ clients[last.client].param_cache[p]
                = OwnerValue(adapter_state, p, last.msg.params.metadata)

\* C3: of two consecutive gets with delta=true by one client for one path,
\* with no change of the owner's value in between, the second reports no leaf.
C3_RequeryReportsNothing ==
    [][\A p \in RequestedPaths :
          (/\ DeltaGet(last) /\ Answered(last)
           /\ DeltaGet(last') /\ last'.client = last.client
           /\ p \in KnownPaths(last.msg.params.paths)
           /\ p \in KnownPaths(last'.msg.params.paths))
          => /\ Answered(last')
             /\ p \in DOMAIN Answer(last').params
             /\ Leaves(Answer(last').params[p]) = {}]_vars

\* C4: every receive event is answered with exactly one response, sent to
\* the client that sent the request.
C4_OneResponsePerReceive ==
    Received(last) => (Len(last.sent) = 1 /\ last.sent[1].to = last.client)

\* the paths a set names and the value it gives for each
SetPaths(msg) == {msg.params.paths[i][1] : i \in 1..Len(msg.params.paths)}

SetValue(msg, p) ==
    (CHOOSE i \in 1..Len(msg.params.paths) : msg.params.paths[i][1] = p) [2]

\* C5: a set is answered with one entry for each path of a registered
\* owner, under that path, holding the value the owner now has for it, which
\* is the value of the request.
C5_SetAnswersEveryKnownPath ==
    (Received(last) /\ IsCmd(last.msg, "set"))
    => /\ Answered(last)
       /\ DOMAIN Answer(last).params
             = {p \in SetPaths(last.msg) : Split1(p)[1] \in DOMAIN adapters}
       /\ \A p \in DOMAIN Answer(last).params :
             /\ Answer(last).params[p] = SetValue(last.msg, p)
             /\ OwnerValue(adapter_state, p, FALSE) = SetValue(last.msg, p)

\* C6: the response to a get is an ack with an entry for exactly the
\* requested paths whose owner is registered, each the owner's normalized
\* value or a part of it; a path of an unknown owner gets no cache entry and
\* a get of unknown owners only is still acked.
C6_GetAnswersKnownPaths ==
    (Received(last) /\ IsCmd(last.msg, "get"))
    => LET paths == last.msg.params.paths
           known == KnownPaths(paths)
           unknown == {paths[i] : i \in 1..Len(paths)} \ known
           value(p) == OwnerValue(adapter_state, p, last.msg.params.metadata)
       IN /\ known = {} => Answered(last)
          /\ \A p \in unknown :
                \A c \in DOMAIN clients : p \notin DOMAIN clients[c].param_cache
          /\ Answered(last) =>
                /\ Answer(last).msg_type = "ack"
                /\ DOMAIN Answer(last).params = known
                /\ \A p \in known :
                      /\ Leaves(Answer(last).params[p]) \subseteq Leaves(value(p))
                      /\ ~DeltaGet(last) => Answer(last).params[p] = value(p)

C6_Witness ==
    /\ Received(last) /\ IsCmd(last.msg, "get") /\ Answered(last)
    /\ last.msg.params.paths = <<U_P, M_P>>
    /\ DOMAIN Answer(last).params = {M_P}
    /\ DOMAIN clients[last.client].param_cache = {M_P}

\* C7: a get by one client leaves the cache of every other client as it was,
\* and the delta a client receives for p reports the leaves that changed
\* since the value its own last get of p read.
C7_IndependentDeltas ==
    [][(Received(last') /\ IsCmd(last'.msg, "get"))
       => LET b == last'.client IN
          /\ \A a \in DOMAIN clients \ {b} :
                /\ a \in DOMAIN clients'
                /\ clients'[a] = clients[a]
          /\ \A p \in RequestedPaths :
                (/\ DeltaGet(last')
                 /\ p \in KnownPaths(last'.msg.params.paths)
                 /\ b \in DOMAIN seen
                 /\ p \in DOMAIN seen[b])
                => /\ Answered(last')
                   /\ p \in DOMAIN Answer(last').params
                   /\ Leaves(Answer(last').params[p])
                         = ChangedLeaves(seen[b][p], OwnerValue(adapter_state, p, FALSE))]_vars

\* C8: a bye from client c removes the session of c, is answered with an ack
\* with empty params, and leaves every other session exactly as it was.
C8_ByeRemovesOnlySender ==
    [][(Received(last') /\ IsCmd(last'.msg, "bye"))
       => LET c == last'.client IN
          /\ c \notin DOMAIN clients'
          /\ last'.sent = << [to |-> c,
                              msg |-> Response("ack", "bye", last'.msg.id, EmptyKids)] >>
          /\ DOMAIN clients' = DOMAIN clients \ {c}
          /\ \A d \in DOMAIN clients' : clients'[d] = clients[d]]_vars

C8_Witness ==
    /\ Received(last) /\ IsCmd(last.msg, "bye") /\ Answered(last)
    /\ last.client \notin DOMAIN clients
    /\ \E d \in DOMAIN clients :
          clients[d].msg_count > 0 /\ DOMAIN clients[d].param_cache # {}

\* C9: a client id has a session exactly when it has sent a message and the
\* last one it sent was no bye command: there is no session at the start, a
\* message from the id leaves a session unless it is a bye command, and no
\* other event (monitor event, owner change) creates or removes one.
C9_SessionIffLastNotBye ==
    /\ DOMAIN clients = {}
    /\ [][\A c \in CLIENT_IDS :
             (c \in DOMAIN clients')
             <=> IF Received(last') /\ last'.client = c
                 THEN ~IsCmd(last'.msg, "bye")
                 ELSE c \in DOMAIN clients]_vars

C9_Witness ==
    /\ last.event = "monitor" /\ last.raised = "DISCONNECTED"
    /\ num_clients = 0
    /\ DOMAIN clients = CLIENT_IDS

\* C10: a frame that does not decode is answered with a nack with id 0 and
\* an error param; the sender keeps (or gets) its session, no cache and no
\* owner value changes, and a get the same client sends next is answered
\* with the owner's values.
C10_DecodeFailureNack ==
    [][/\ (Received(last') /\ ~last'.msg.decodes)
          => LET c == last'.client IN
             /\ Answered(last')
             /\ last'.sent[1].to = c
             /\ Answer(last').msg_type = "nack"
             /\ Answer(last').id = 0
             /\ ERROR_KEY \in DOMAIN Answer(last').params
             /\ c \in DOMAIN clients'
             /\ DOMAIN clients' = DOMAIN clients \cup {c}
             /\ \A d \in DOMAIN clients :
                   clients'[d].param_cache = clients[d].param_cache
             /\ c \notin DOMAIN clients => clients'[c].param_cache = EmptyKids
             /\ adapter_state' = adapter_state
       /\ (/\ Received(last) /\ ~last.msg.decodes
           /\ Received(last') /\ last'.client = last.client
           /\ IsCmd(last'.msg, "get") /\ ~DeltaGet(last'))
          => /\ Answered(last')
             /\ Answer(last').msg_type = "ack"
             /\ Answer(last').id = last'.msg.id
             /\ \A p \in KnownPaths(last'.msg.params.paths) :
                   Answer(last').params[p]
                      = OwnerValue(adapter_state, p, last'.msg.params.metadata)]_vars

C10_Witness ==
    /\ Received(last) /\ ~last.msg.decodes /\ Answered(last)
    /\ Answer(last).id = 0
    /\ last.client \in DOMAIN clients
    /\ clients[last.client].msg_count > 0
    /\ DOMAIN clients[last.client].param_cache # {}

\* the five commands process_client_msg matches
CommandVerbs == {"request_adapters", "get", "set", "subscribe", "bye"}

IsCommand(msg) == msg.decodes /\ msg.msg_type = "cmd" /\ msg.msg_val \in CommandVerbs

\* C11: a frame that decodes and is none of the five commands (an unknown
\* verb, or a known verb with a type other than cmd) is answered with one
\* nack that carries the verb and the id of the request and no params.
C11_UnknownVerbNack ==
    (Received(last) /\ last.msg.decodes /\ ~IsCommand(last.msg))
    => last.sent = << [to  |-> last.client,
                       msg |-> [msg_type |-> "nack",
                                msg_val  |-> last.msg.msg_val,
                                id       |-> last.msg.id,
                                params   |-> EmptyKids]] >>

C11_Witness ==
    /\ Received(last) /\ last.msg.decodes
    /\ last.msg.msg_type = "notify" /\ last.msg.msg_val = "get"
    /\ Answered(last) /\ Answer(last).msg_type = "nack"
    /\ last.client \in DOMAIN clients
    /\ DOMAIN clients[last.client].param_cache = {}

\* C12: the response to a frame that decodes carries the id and the verb of
\* the request, and it is an ack exactly when the request is one of the five
\* commands, a nack otherwise.
C12_ResponseEchoesRequest ==
    (Received(last) /\ last.msg.decodes /\ Answered(last))
    => /\ Answer(last).id = last.msg.id
       /\ Answer(last).msg_val = last.msg.msg_val
       /\ Answer(last).msg_type \in {"ack", "nack"}
       /\ Answer(last).msg_type = "ack" <=> IsCommand(last.msg)

C12_Witness ==
    /\ Received(last) /\ IsCmd(last.msg, "request_adapters") /\ last.msg.id = 2
    /\ Answered(last) /\ Answer(last).id = 2 /\ Answer(last).msg_type = "ack"
    /\ clients[last.client].msg_count > 0

\* C13: update_params returns the new value as it is and stores it as the
\* cache entry of the path whenever with_delta is false, whatever the entry
\* was, and whenever the session has no entry for the path, with_delta true
\* included.
C13_FullUpdateStoresValue ==
    [][\A p \in RequestedPaths :
          LET c == last'.client
              V == OwnerValue(adapter_state, p, last'.msg.params.metadata)
          IN (/\ Received(last') /\ IsCmd(last'.msg, "get")
              /\ p \in KnownPaths(last'.msg.params.paths)
              /\ \/ ~DeltaGet(last')
                 \/ c \notin DOMAIN clients
                 \/ p \notin DOMAIN clients[c].param_cache)
             => /\ Answered(last')
                /\ p \in DOMAIN Answer(last').params
                /\ Answer(last').params[p] = V
                /\ p \in DOMAIN clients'[c].param_cache
                /\ clients'[c].param_cache[p] = V]_vars

C13_Witness ==
    /\ DeltaGet(last) /\ Answered(last)
    /\ last.msg.params.paths = <<M_G>>
    /\ clients[last.client].msg_count = 1
    /\ DOMAIN clients[last.client].param_cache = {M_P, M_G}
    /\ Answer(last).params[M_G] = OwnerValue(adapter_state, M_G, FALSE)
    /\ clients[last.client].param_cache[M_G] = OwnerValue(adapter_state, M_G, FALSE)

\* C14: a get with metadata=true is processed with delta=false whatever its
\* delta flag: for each path of a registered owner the response holds the
\* owner's whole normalized tree with metadata, and the cache entry of the
\* session for the path is that tree.
C14_MetadataForcesFullGet ==
    (Received(last) /\ IsCmd(last.msg, "get") /\ last.msg.params.metadata)
    => /\ Answered(last)
       /\ DOMAIN Answer(last).params = KnownPaths(last.msg.params.paths)
       /\ \A p \in KnownPaths(last.msg.params.paths) :
             /\ Answer(last).params[p] = OwnerValue(adapter_state, p, TRUE)
             /\ p \in DOMAIN clients[last.client].param_cache
             /\ clients[last.client].param_cache[p] = OwnerValue(adapter_state, p, TRUE)

C14_Witness ==
    /\ Received(last) /\ IsCmd(last.msg, "get") /\ Answered(last)
    /\ last.msg.params.metadata /\ last.msg.params.delta
    /\ last.msg.params.paths = <<M>>
    /\ clients[last.client].msg_count > 0
    /\ adapter_state.p = "i0"
    /\ Leaves(Answer(last).params[M]) = Leaves(AdapterTree(adapter_state, TRUE))

\* C15: while a session exists its msg_count never decreases: every receive
\* event from its client id after the one that created it adds exactly one,
\* whether the frame decodes, is acked, is nacked or makes the handler raise;
\* no other event changes it, and the event that creates a session leaves
\* the count at 0.
C15_MsgCountCountsReceives ==
    [][\A c \in CLIENT_IDS :
          /\ (c \in DOMAIN clients /\ c \in DOMAIN clients')
             => clients'[c].msg_count
                   = clients[c].msg_count
                     + (IF Received(last') /\ last'.client = c THEN 1 ELSE 0)
          /\ (c \notin DOMAIN clients /\ c \in DOMAIN clients')
             => /\ Received(last') /\ last'.client = c
                /\ clients'[c].msg_count = 0]_vars

C15_Witness ==
    /\ Received(last) /\ last.raised = "UnboundLocalError"
    /\ last.client \in DOMAIN clients
    /\ clients[last.client].msg_count = 2
    /\ \E d \in DOMAIN clients : clients[d].msg_count = 0

\* C16: num_clients changes only in monitor events, by +1 for CONNECTED and
\* by -1 for DISCONNECTED on the client or the publisher channel; receive
\* events, bye included, leave it as it is, and monitor events leave the
\* sessions as they are.
C16_CounterFollowsMonitor ==
    [][/\ last'.event = "monitor"
          => /\ clients' = clients
             /\ num_clients' = num_clients
                   + (CASE last'.raised = "CONNECTED" -> 1
                        [] last'.raised = "DISCONNECTED" -> -1
                        [] OTHER -> 0)
       /\ last'.event # "monitor" => num_clients' = num_clients]_vars

\* the counter and the number of sessions differ: a connection is open and
\* the only session was removed by bye
C16_Witness ==
    /\ Received(last) /\ IsCmd(last.msg, "bye")
    /\ num_clients = 1
    /\ DOMAIN clients = {}

\* C17: request_adapters is answered with an ack whose adapters param maps
\* the name of every registered owner to its class name: owner m of class
\* SystemInfoAdapter at every point, whatever was processed before.
C17_AdaptersListed ==
    (Received(last) /\ IsCmd(last.msg, "request_adapters"))
    => last.sent
          = << [to  |-> last.client,
                msg |-> [msg_type |-> "ack",
                         msg_val  |-> "request_adapters",
                         id       |-> last.msg.id,
                         params   |-> (ADAPTERS_KEY
                                         :> Node((<<"m">> :> Leaf("SystemInfoAdapter"))))]] >>

C17_Witness ==
    /\ Received(last) /\ IsCmd(last.msg, "request_adapters") /\ Answered(last)
    /\ ADAPTERS_KEY \in DOMAIN Answer(last).params
    /\ adapter_state.x = "bT"
    /\ DOMAIN clients = CLIENT_IDS

\* C18: subscribe is answered with an ack with empty params; every message
\* sent is the one response to a receive event and goes to the client that
\* sent the frame, an event that is no receive event sends nothing, and
\* nothing is sent on the publisher channel.
C18_SubscribeOnlyAcks ==
    /\ (Received(last) /\ IsCmd(last.msg, "subscribe"))
       => last.sent = << [to  |-> last.client,
                          msg |-> [msg_type |-> "ack",
                                   msg_val  |-> "subscribe",
                                   id       |-> last.msg.id,
                                   params   |-> EmptyKids]] >>
    /\ ~Received(last) => last.sent = <<>>
    /\ Len(last.sent) <= 1
    /\ \A i \in 1..Len(last.sent) : last.sent[i].to = last.client
    /\ last.published = <<>>

C18_Witness ==
    /\ Received(last) /\ IsCmd(last.msg, "subscribe") /\ Answered(last)
    /\ Len(last.msg.params.paths) = 2
    /\ clients[last.client].msg_count > 0
    /\ num_clients = 1

\* the value of tree t at the key path kp, None when there is none
RECURSIVE At(_, _)
At(t, kp) ==
    IF kp = <<>> THEN t
    ELSE IF IsDict(t) /\ Head(kp) \in DOMAIN t.kids
         THEN At(t.kids[Head(kp)], Tail(kp))
         ELSE None

\* the key paths of the dicts below the root of t
RECURSIVE NodePaths(_)
NodePaths(t) ==
    IF ~IsDict(t) THEN {}
    ELSE UNION {{<<k>>} \cup {<<k>> \o q : q \in NodePaths(t.kids[k])} :
                  k \in {j \in DOMAIN t.kids : IsDict(t.kids[j])}}

\* every key path of t: to its leaves and to the dicts below its root
AllKeyPaths(t) == KeyPaths(t) \cup NodePaths(t)

\* the leaves of ls at or below the key path kp
Below(ls, kp) ==
    {l \in ls : Len(l[1]) >= Len(kp) /\ SubSeq(l[1], 1, Len(kp)) = kp}

\* the dicts below the root that the cached tree V and the new value V2
\* both have, with no changed leaf below them, while a leaf changed elsewhere
\* below the root, their ancestor
UnchangedNodes(V, V2) ==
    {kp \in NodePaths(V2) :
        /\ IsDict(At(V, kp))
        /\ Below(ChangedLeaves(V, V2), kp) = {}
        /\ ChangedLeaves(V, V2) # {}}

\* a get with delta=true of path p, cached by the session, that is answered
CachedDeltaGet(l, p) ==
    /\ DeltaGet(l) /\ Answered(l)
    /\ p \in KnownPaths(l.msg.params.paths)
    /\ l.client \in DOMAIN clients
    /\ p \in DOMAIN clients[l.client].param_cache

\* C19 as stated: in the delta of a get with delta=true, an unchanged dict
\* (no changed leaf below it) under a changed ancestor appears as an empty
\* dict.
C19_UnchangedNodeKeptEmpty ==
    [][\A p \in RequestedPaths :
          CachedDeltaGet(last', p)
          => \A kp \in UnchangedNodes(clients[last'.client].param_cache[p],
                                       OwnerValue(adapter_state, p, FALSE)) :
                At(Answer(last').params[p], kp) = Node(EmptyKids)]_vars

\* C19 as amended: in the delta of a get with delta=true, an unchanged dict
\* (no changed leaf below it) under a changed ancestor is omitted from the
\* result, as an unchanged leaf is.
C19_UnchangedNodeOmitted ==
    [][\A p \in RequestedPaths :
          CachedDeltaGet(last', p)
          => \A kp \in UnchangedNodes(clients[last'.client].param_cache[p],
                                       OwnerValue(adapter_state, p, FALSE)) :
                At(Answer(last').params[p], kp) = None]_vars

\* p of owner m went from 0 to 1 after the session cached the whole tree:
\* the delta holds p only, the unchanged dict g is left out
C19_Witness ==
    /\ DeltaGet(last) /\ Answered(last)
    /\ last.msg.params.paths = <<M>>
    /\ Answer(last).params[M] = Node((<<"p">> :> Leaf("i1")))
    /\ IsDict(At(clients[last.client].param_cache[M], << <<"g">> >>))

RECURSIVE PathStrings(_)
PathStrings(n) ==
    IF n = 0 THEN {<<>>}
    ELSE LET shorter == PathStrings(n - 1) IN
         shorter \cup {q \o <<ch>> : q \in {r \in shorter : Len(r) = n - 1},
                                      ch \in {"m", "p", SLASH}}

\* the keys of the dicts handed to the utilities: "", "p" and "mp"
UtilKeys == {<<>>, <<"p">>, <<"m", "p">>}

\* the values below a key of those dicts
UtilKids == {Leaf("i1"), Node(EmptyKids)}

\* the dicts handed to the utilities: up to two keys
UtilDicts ==
    {Node(f) : f \in UNION {[ks -> UtilKids] :
                               ks \in {k \in SUBSET UtilKeys : Cardinality(k) <= 2}}}

\* the values handed to the utilities: scalars and dicts
UtilParams == {Leaf("i0"), Leaf("sa")} \cup UtilDicts

\* the arguments of one call of a utility
InitUtils ==
    /\ clients = EmptyKids
    /\ num_clients = 0
    /\ adapter_state = [p |-> "i1", x |-> "bF", y |-> "s"]
    /\ seen = EmptyKids
    /\ last \in {[event |-> "input", path |-> path, params |-> params] :
                     path \in PathStrings(MaxPathLen), params \in UtilParams}

Called(name, result) ==
    /\ last.event = "input"
    /\ last' = [event |-> name, path |-> last.path, params |-> last.params,
                result |-> result]
    /\ UNCHANGED <<clients, num_clients, adapter_state, seen>>

call_resolve_paths == Called("resolve_paths", resolve_paths(last.path))

call_normalize_params ==
    Called("normalize_params", normalize_params(last.path, last.params))

call_denormalize_params ==
    Called("denormalize_params", denormalize_params(last.path, last.params))

\* normalize_params applied to what denormalize_params returned for the path
call_normalize_denormalized ==
    /\ last.event = "denormalize_params"
    /\ ~last.result.raised
    /\ last' = [event |-> "normalize_denormalized", path |-> last.path,
                params |-> last.params,
                result |-> normalize_params(last.path, last.result.params)]
    /\ UNCHANGED <<clients, num_clients, adapter_state, seen>>

NextUtils ==
    \/ call_resolve_paths
    \/ call_normalize_params
    \/ call_denormalize_params
    \/ call_normalize_denormalized

SpecUtils == InitUtils /\ [][NextUtils]_vars

NoSlash(str) == \A i \in 1..Len(str) : str[i] # SLASH

\* seg is the text of path after its last "/", the whole of it without one
IsLastSegment(path, seg) ==
    \E i \in 0..Len(path) :
        /\ seg = SubSeq(path, i + 1, Len(path))
        /\ NoSlash(seg)
        /\ i = 0 \/ path[i] = SLASH

\* C21: for every path string resolve_paths yields the path itself, as the
\* owner name the text before the first "/" (so a name without "/") and as
\* the sub-path the text after it or the empty string: the path is the owner
\* name when it has no "/", and owner name + "/" + sub-path otherwise.
C21_ResolveSplitsAtFirstSlash ==
    last.event = "resolve_paths"
    => LET r == last.result IN
       /\ r.path = last.path
       /\ NoSlash(r.adapter)
       /\ IF NoSlash(last.path)
          THEN r.adapter = last.path /\ r.sub_path = <<>>
          ELSE last.path = r.adapter \o <<SLASH>> \o r.sub_path

C21_Witness ==
    /\ last.event = "resolve_paths"
    /\ last.path = <<"m", "/", "/", "p">>
    /\ last.result.adapter = <<"m">>
    /\ last.result.sub_path = <<"/", "p">>

\* what normalize is to return for a dict: the value under its single key
\* when that key is the last segment of the path, the dict itself otherwise
NormalizedAsClaimed(path, params, result) ==
    IF /\ IsDict(params)
       /\ \E k \in DOMAIN params.kids : DOMAIN params.kids = {k} /\ IsLastSegment(path, k)
    THEN \E k \in DOMAIN params.kids : result = params.kids[k]
    ELSE result = params

\* C22 as stated: for every sub-path and every value, scalar or dict,
\* normalize_params returns the value under the single key of a dict whose
\* one key is the last segment of the sub-path, and the value itself in
\* every other case.
C22_NormalizeAnyValue ==
    last.event = "normalize_params"
    => /\ ~last.result.raised
       /\ NormalizedAsClaimed(last.path, last.params, last.result.params)

\* C22 as amended: for every sub-path and every dict, normalize_params
\* returns the value under the single key of a dict whose one key is the last
\* segment of the sub-path, and the dict itself in every other case; a value
\* that is no dict is not accepted, the call raises.
C22_NormalizeDict ==
    last.event = "normalize_params"
    => IF IsDict(last.params)
       THEN /\ ~last.result.raised
            /\ NormalizedAsClaimed(last.path, last.params, last.result.params)
       ELSE last.result.raised

C22_Witness ==
    /\ last.event = "normalize_params"
    /\ last.path = <<"p", "/", "m", "p">>
    /\ last.params = Node((<<"m", "p">> :> Leaf("i1")))
    /\ ~last.result.raised
    /\ last.result.params = Leaf("i1")

\* C23: for every scalar v and every sub-path s with a "/" in it,
\* denormalize_params(s, v) returns the part of s before its last "/", the
\* last segment of s and {last segment: v}, and normalize_params(s, that
\* dict) returns v.
C23_DenormalizeThenNormalize ==
    /\ (last.event = "denormalize_params" /\ ~IsDict(last.params) /\ ~NoSlash(last.path))
       => LET d == last.result IN
          /\ ~d.raised
          /\ IsLastSegment(last.path, d.param_name)
          /\ last.path = d.path \o <<SLASH>> \o d.param_name
          /\ d.params = Node((d.param_name :> last.params))
    /\ (last.event = "normalize_denormalized" /\ ~IsDict(last.params) /\ ~NoSlash(last.path))
       => /\ ~last.result.raised
          /\ last.result.params = last.params

C23_Witness ==
    /\ last.event = "normalize_denormalized"
    /\ last.path = <<"p", "/", "/", "m">>
    /\ last.params = Leaf("sa")
    /\ last.result.params = Leaf("sa")

\* the parameter cache of client c in the registry cl, empty without a session
CacheOf(cl, c) == IF c \in DOMAIN cl THEN cl[c].param_cache ELSE EmptyKids

\* C24: only get commands modify a parameter cache: a set, subscribe or
\* request_adapters command, a nacked frame, a frame that does not decode and
\* an event that is no receive event leave the cache of every session as it
\* was (bye removes the session of its sender and leaves the others), so a
\* set does not update the sender's cached value for the path it sets.
C24_OnlyGetChangesCaches ==
    [][~(Received(last') /\ IsCmd(last'.msg, "get"))
       => \A c \in CLIENT_IDS :
             \/ CacheOf(clients', c) = CacheOf(clients, c)
             \/ /\ Received(last') /\ IsCmd(last'.msg, "bye") /\ last'.client = c
                /\ c \notin DOMAIN clients']_vars

\* the session cached x = false, then set x to true: the cache still says false
C24_Witness ==
    /\ Received(last) /\ IsCmd(last.msg, "set") /\ Answered(last)
    /\ Answer(last).params = (M_G_X :> Leaf("bT"))
    /\ adapter_state.x = "bT"
    /\ M_G_X \in DOMAIN CacheOf(clients, last.client)
    /\ CacheOf(clients, last.client)[M_G_X] = Leaf("bF")

\* C25: a frame from a client id without a session, one removed by bye
\* included, creates a session with msg_count 0 and an empty cache: when the
\* frame is a get, delta=true included, it is answered with the owner's full
\* value for each path, which becomes the cache; any other frame leaves the
\* cache empty.
C25_FreshSessionAfterBye ==
    [][\A c \in CLIENT_IDS :
          (/\ Received(last') /\ last'.client = c
           /\ ~IsCmd(last'.msg, "bye")
           /\ \/ c \notin DOMAIN clients
              \/ Received(last) /\ IsCmd(last.msg, "bye") /\ last.client = c)
          => /\ c \in DOMAIN clients'
             /\ clients'[c].msg_count = 0
             /\ IF IsCmd(last'.msg, "get")
                THEN /\ Answered(last')
                     /\ DOMAIN Answer(last').params = KnownPaths(last'.msg.params.paths)
                     /\ DOMAIN clients'[c].param_cache = KnownPaths(last'.msg.params.paths)
                     /\ \A p \in KnownPaths(last'.msg.params.paths) :
                           LET V == OwnerValue(adapter_state, p, last'.msg.params.metadata)
                           IN /\ Answer(last').params[p] = V
                              /\ clients'[c].param_cache[p] = V
                ELSE clients'[c].param_cache = EmptyKids]_vars

\* the first frame of a session of c1 is a get with delta=true of two paths:
\* both are answered with the owner's value in full
C25_Witness ==
    /\ DeltaGet(last) /\ Answered(last)
    /\ last.client = "c1"
    /\ last.msg.params.paths = <<M_G_X, M_G>>
    /\ clients["c1"].msg_count = 0
    /\ adapter_state.x = "bT"
    /\ Answer(last).params[M_G_X] = Leaf("bT")
    /\ Answer(last).params[M_G] = OwnerValue(adapter_state, M_G, FALSE)

\* the paths of registered owners client c asked for with get since its
\* session was created
PathsAskedFor(sn, c) == IF c \in DOMAIN sn THEN DOMAIN sn[c] ELSE {}

\* C26: a get changes the cache entries of the sender keyed by the paths it
\* asks for and no other entry, entries for a prefix or an extension of
\* such a path included, and params_cached of every session is the number of
\* distinct paths of registered owners its client has asked for with get
\* since the session was created.
C26_GetTouchesOnlyItsPaths ==
    [][/\ (Received(last') /\ IsCmd(last'.msg, "get"))
          => LET c == last'.client
                 asked == KnownPaths(last'.msg.params.paths)
             IN /\ DOMAIN CacheOf(clients', c) \subseteq DOMAIN CacheOf(clients, c) \cup asked
                /\ \A p \in DOMAIN CacheOf(clients, c) \ asked :
                      /\ p \in DOMAIN CacheOf(clients', c)
                      /\ CacheOf(clients', c)[p] = CacheOf(clients, c)[p]
       /\ \A c \in DOMAIN clients' :
             as_tree(clients'[c]).params_cached = Cardinality(PathsAskedFor(seen', c))]_vars
====
